---- MODULE Spec2Model ----
(***************************************************************************)
(* Model of txdav/dps/json.py: the codec between directory query           *)
(* expressions (twext.who.expression) and their JSON representation.       *)
(*                                                                         *)
(* Python values are modelled as follows.                                  *)
(*  - A string is a sequence of symbols.  The symbols "{", "}" and ","     *)
(*    are the characters the flags grammar inspects; every other symbol    *)
(*    is a word without those characters ("uid", "MatchExpression", "A").  *)
(*    W(w) is the one-word string.                                         *)
(*  - A JSON value is a record tagged by j: "dict", "list", "str", "num",  *)
(*    "bool" or "null".  A dict's d is a function from its keys.           *)
(*  - An expression object is a record tagged by class.                    *)
(*  - A call's outcome is Return(v) or Raise(exc, kind, arg), exc being    *)
(*    the Python exception class.                                          *)
(***************************************************************************)
EXTENDS Integers, Sequences, FiniteSets, TLC

VARIABLES kind, expression, service, json, jsonText, encoded, result, op

vars == <<kind, expression, service, json, jsonText, encoded, result, op>>

----------------------------------------------------------------------------
(* Bounds of the model *)

MaxExprNodes == 3

MaxJSONNodes == 3

MaxFlagsLen == 5

----------------------------------------------------------------------------
(* Python values *)

W(w) == <<w>>

JStr(s) == [j |-> "str", s |-> s]

JNum(n) == [j |-> "num", n |-> n]

JBool(b) == [j |-> "bool", b |-> b]

JNull == [j |-> "null"]

JList(items) == [j |-> "list", items |-> items]

JDict(d) == [j |-> "dict", d |-> d]

Return(v) == [ok |-> TRUE, value |-> v]

Raise(exc, k, arg) == [ok |-> FALSE, exc |-> exc, kind |-> k, arg |-> arg]

NoResult == [ok |-> FALSE, exc |-> "", kind |-> "NoResult", arg |-> <<>>]

\* The text an exception carries for a looked-up value.
NameOf(js) == IF js.j = "str" THEN js.s ELSE W(js.j)

MinOf(S) == CHOOSE i \in S : \A k \in S : i <= k

----------------------------------------------------------------------------
(* twext.who.expression: enumerations and expression classes *)

FlagOrder == <<"A", "B">>

FlagNames == {FlagOrder[i] : i \in DOMAIN FlagOrder}

MatchTypeNames == {"equals", "contains"}

OperandNames == {"AND", "OR"}

FieldNames == {"uid", "guid"}

RECURSIVE JoinFlags(_, _)
JoinFlags(flags, i) ==
    IF i > Len(FlagOrder) THEN <<>>
    ELSE LET rest == JoinFlags(flags, i + 1)
         IN  IF FlagOrder[i] \notin flags THEN rest
             ELSE IF rest = <<>> THEN <<FlagOrder[i]>>
             ELSE <<FlagOrder[i], ",">> \o rest

\* MatchFlags constant .name: the flag's own name, or "{A,B,...}" (sorted)
\* for a combination, "{}" for MatchFlags.none.
FlagsName(flags) ==
    IF Cardinality(flags) = 1 THEN JoinFlags(flags, 1)
    ELSE <<"{">> \o JoinFlags(flags, 1) \o <<"}">>

\* Names.lookupByName / Flags.lookupByName: the constant, or ValueError(name).
MatchFlagsLookupByName(name) ==
    IF Len(name) = 1 /\ name[1] \in FlagNames
    THEN Return({name[1]})
    ELSE Raise("ValueError", "UnknownFlag", name)

MatchTypeLookupByName(js) ==
    IF js.j = "str" /\ Len(js.s) = 1 /\ js.s[1] \in MatchTypeNames
    THEN Return([name |-> js.s[1]])
    ELSE Raise("ValueError", "UnknownMatchType", NameOf(js))

OperandLookupByName(js) ==
    IF js.j = "str" /\ Len(js.s) = 1 /\ js.s[1] \in OperandNames
    THEN Return([name |-> js.s[1]])
    ELSE Raise("ValueError", "UnknownOperand", NameOf(js))

\* service.fieldName.lookupByName
FieldNameLookupByName(svc, js) ==
    IF js.j = "str" /\ Len(js.s) = 1 /\ js.s[1] \in svc.fieldName
    THEN Return([name |-> js.s[1]])
    ELSE Raise("ValueError", "UnknownFieldName", NameOf(js))

MatchExpression(fieldName, fieldValue, matchType, flags) ==
    [class |-> "MatchExpression", fieldName |-> fieldName,
     fieldValue |-> fieldValue, matchType |-> matchType, flags |-> flags]

ExistsExpression(fieldName) ==
    [class |-> "ExistsExpression", fieldName |-> fieldName]

BooleanExpression(fieldName) ==
    [class |-> "BooleanExpression", fieldName |-> fieldName]

CompoundExpression(expressions, operand) ==
    [class |-> "CompoundExpression", expressions |-> expressions,
     operand |-> operand]

----------------------------------------------------------------------------
(* Encoder *)

matchExpressionAsJSON(e) ==
    JDict([type |-> JStr(W(e.class)),
           field |-> JStr(W(e.fieldName.name)),
           value |-> JStr(e.fieldValue),
           match |-> JStr(W(e.matchType.name)),
           flags |-> JStr(FlagsName(e.flags))])

existsExpressionAsJSON(e) ==
    JDict([type |-> JStr(W(e.class)), field |-> JStr(W(e.fieldName.name))])

booleanExpressionAsJSON(e) ==
    JDict([type |-> JStr(W(e.class)), field |-> JStr(W(e.fieldName.name))])

RECURSIVE expressionAsJSON(_)

\* A faulty variant: the children are encoded last to first.
compoundExpressionAsJSON_reversed(e) ==
    LET n   == Len(e.expressions)
        rs  == [i \in DOMAIN e.expressions |->
                   expressionAsJSON(e.expressions[n + 1 - i])]
        bad == {i \in DOMAIN rs : ~rs[i].ok}
    IN  IF bad # {} THEN rs[MinOf(bad)]
        ELSE Return(JDict([type |-> JStr(W(e.class)),
                           operand |-> JStr(W(e.operand.name)),
                           expressions |->
                               JList([i \in DOMAIN rs |-> rs[i].value])]))

\* The list comprehension raises at the first child that raises.
compoundExpressionAsJSON(e) ==
    LET rs  == [i \in DOMAIN e.expressions |-> expressionAsJSON(e.expressions[i])]
        bad == {i \in DOMAIN rs : ~rs[i].ok}
    IN  IF bad # {} THEN rs[MinOf(bad)]
        ELSE Return(JDict([type |-> JStr(W(e.class)),
                           operand |-> JStr(W(e.operand.name)),
                           expressions |->
                               JList([i \in DOMAIN rs |-> rs[i].value])]))

expressionAsJSON(e) ==
    IF e.class = "CompoundExpression" THEN compoundExpressionAsJSON(e)
    ELSE IF e.class = "MatchExpression" THEN Return(matchExpressionAsJSON(e))
    ELSE IF e.class = "ExistsExpression" THEN Return(existsExpressionAsJSON(e))
    ELSE IF e.class = "BooleanExpression" THEN Return(booleanExpressionAsJSON(e))
    ELSE Raise("TypeError", "UnsupportedType", W(e.class))

----------------------------------------------------------------------------
(* Decoder *)

matchTypeFromJSON(js) == MatchTypeLookupByName(js)

startswith(s, c) == Len(s) >= 1 /\ s[1] = c

endswith(s, c) == Len(s) >= 1 /\ s[Len(s)] = c

\* str.split(","): the pieces between the commas, empty pieces included.
RECURSIVE split(_)
split(s) ==
    LET commas == {i \in 1..Len(s) : s[i] = ","}
    IN  IF commas = {} THEN <<s>>
        ELSE <<SubSeq(s, 1, MinOf(commas) - 1)>>
                 \o split(SubSeq(s, MinOf(commas) + 1, Len(s)))

\* A faulty variant: empty components of a composite are skipped.
matchFlagsFromJSON_skipEmpty(js) ==
    IF js = JStr(<<"{", "}">>) THEN Return({})
    ELSE IF js.j # "str" THEN Raise("AttributeError", "NotAString", W(js.j))
    ELSE IF startswith(js.s, "{") /\ endswith(js.s, "}")
    THEN LET parts == SelectSeq(split(SubSeq(js.s, 2, Len(js.s) - 1)),
                                LAMBDA part : part # <<>>)
             rs    == [i \in DOMAIN parts |-> MatchFlagsLookupByName(parts[i])]
             bad   == {i \in DOMAIN rs : ~rs[i].ok}
         IN  IF bad # {} THEN rs[MinOf(bad)]
             ELSE Return(UNION {rs[i].value : i \in DOMAIN rs})
    ELSE MatchFlagsLookupByName(js.s)

matchFlagsFromJSON(js) ==
    IF js = JStr(<<"{", "}">>) THEN Return({})
    ELSE IF js.j # "str" THEN Raise("AttributeError", "NotAString", W(js.j))
    ELSE IF startswith(js.s, "{") /\ endswith(js.s, "}")
    THEN LET parts == split(SubSeq(js.s, 2, Len(js.s) - 1))
             rs    == [i \in DOMAIN parts |-> MatchFlagsLookupByName(parts[i])]
             bad   == {i \in DOMAIN rs : ~rs[i].ok}
         IN  IF bad # {} THEN rs[MinOf(bad)]
             ELSE Return(UNION {rs[i].value : i \in DOMAIN rs})
    ELSE MatchFlagsLookupByName(js.s)

\* A faulty variant: the JSON spelling of the value instead of unicode().
unicode_json(js) ==
    CASE js.j = "str"  -> js.s
      [] js.j = "num"  -> W(ToString(js.n))
      [] js.j = "bool" -> W(IF js.b THEN "true" ELSE "false")
      [] js.j = "null" -> W("null")

\* unicode(jsonValue) for the scalar JSON values.
unicode(js) ==
    CASE js.j = "str"  -> js.s
      [] js.j = "num"  -> W(ToString(js.n))
      [] js.j = "bool" -> W(IF js.b THEN "True" ELSE "False")
      [] js.j = "null" -> W("None")

\* dict.get(key, default)
get(d, key, default) == IF key \in DOMAIN d THEN d[key] ELSE default

\* json[key] on a value that is no dict
NotSubscriptable(js) == Raise("TypeError", "NotSubscriptable", W(js.j))

MissingKey(key) == Raise("ValueError", "MissingField", W(key))

\* A faulty variant: the value key is read before the field key.
matchExpressionFromJSON_valueFirst(svc, js) ==
    IF js.j # "dict" THEN NotSubscriptable(js)
    ELSE IF "value" \notin DOMAIN js.d THEN MissingKey("value")
    ELSE IF "field" \notin DOMAIN js.d THEN MissingKey("field")
    ELSE LET fieldName  == FieldNameLookupByName(svc, js.d.field)
             fieldValue == unicode(js.d.value)
             matchType  == matchTypeFromJSON(get(js.d, "match", JStr(W("equals"))))
             flags      == matchFlagsFromJSON(get(js.d, "flags", JStr(<<"{", "}">>)))
         IN  IF ~fieldName.ok THEN fieldName
             ELSE IF ~matchType.ok THEN matchType
             ELSE IF ~flags.ok THEN flags
             ELSE Return(MatchExpression(fieldName.value, fieldValue,
                                         matchType.value, flags.value))

\* A faulty variant: an absent match key stands for "contains".
matchExpressionFromJSON_defaultContains(svc, js) ==
    IF js.j # "dict" THEN NotSubscriptable(js)
    ELSE IF "field" \notin DOMAIN js.d THEN MissingKey("field")
    ELSE IF "value" \notin DOMAIN js.d THEN MissingKey("value")
    ELSE LET fieldName  == FieldNameLookupByName(svc, js.d.field)
             fieldValue == unicode(js.d.value)
             matchType  == matchTypeFromJSON(get(js.d, "match", JStr(W("contains"))))
             flags      == matchFlagsFromJSON(get(js.d, "flags", JStr(<<"{", "}">>)))
         IN  IF ~fieldName.ok THEN fieldName
             ELSE IF ~matchType.ok THEN matchType
             ELSE IF ~flags.ok THEN flags
             ELSE Return(MatchExpression(fieldName.value, fieldValue,
                                         matchType.value, flags.value))

matchExpressionFromJSON(svc, js) ==
    IF js.j # "dict" THEN NotSubscriptable(js)
    ELSE IF "field" \notin DOMAIN js.d THEN MissingKey("field")
    ELSE IF "value" \notin DOMAIN js.d THEN MissingKey("value")
    ELSE LET fieldName  == FieldNameLookupByName(svc, js.d.field)
             fieldValue == unicode(js.d.value)
             matchType  == matchTypeFromJSON(get(js.d, "match", JStr(W("equals"))))
             flags      == matchFlagsFromJSON(get(js.d, "flags", JStr(<<"{", "}">>)))
         IN  IF ~fieldName.ok THEN fieldName
             ELSE IF ~matchType.ok THEN matchType
             ELSE IF ~flags.ok THEN flags
             ELSE Return(MatchExpression(fieldName.value, fieldValue,
                                         matchType.value, flags.value))

existsExpressionFromJSON(svc, js) ==
    IF js.j # "dict" THEN NotSubscriptable(js)
    ELSE IF "field" \notin DOMAIN js.d THEN MissingKey("field")
    ELSE LET fieldName == FieldNameLookupByName(svc, js.d.field)
         IN  IF ~fieldName.ok THEN fieldName
             ELSE Return(ExistsExpression(fieldName.value))

booleanExpressionFromJSON(svc, js) ==
    IF js.j # "dict" THEN NotSubscriptable(js)
    ELSE IF "field" \notin DOMAIN js.d THEN MissingKey("field")
    ELSE LET fieldName == FieldNameLookupByName(svc, js.d.field)
         IN  IF ~fieldName.ok THEN fieldName
             ELSE Return(BooleanExpression(fieldName.value))

\* A call that passes one argument to a function of two parameters
\* (service, json): Python raises TypeError before the body runs.
MissingArgument(function) == Raise("TypeError", "MissingArgument", W(function))

RECURSIVE SetToSeq(_)
SetToSeq(S) ==
    IF S = {} THEN <<>>
    ELSE LET x == CHOOSE y \in S : TRUE IN <<x>> \o SetToSeq(S \ {x})

\* What "for e in expressions_json" visits: a list's entries, a string's
\* characters, a dict's keys; any other value is not iterable.
iterate(js) ==
    CASE js.j = "list" -> Return(js.items)
      [] js.j = "str"  -> Return([i \in 1..Len(js.s) |-> JStr(<<js.s[i]>>)])
      [] js.j = "dict" -> LET keys == SetToSeq(DOMAIN js.d)
                          IN  Return([i \in DOMAIN keys |-> JStr(W(keys[i]))])
      [] OTHER         -> Raise("TypeError", "NotIterable", W(js.j))

RECURSIVE expressionFromJSON(_)

\* A faulty variant: an entry that fails to decode is left out.
compoundExpressionFromJSON_skipInvalid(js) ==
    IF js.j # "dict" THEN NotSubscriptable(js)
    ELSE IF "expressions" \notin DOMAIN js.d THEN MissingKey("expressions")
    ELSE IF "operand" \notin DOMAIN js.d THEN MissingKey("operand")
    ELSE LET entries == iterate(js.d.expressions)
         IN  IF ~entries.ok THEN entries
             ELSE LET rs  == [i \in DOMAIN entries.value |->
                                  expressionFromJSON(entries.value[i])]
                      good == SelectSeq(rs, LAMBDA r : r.ok)
                      operand == OperandLookupByName(js.d.operand)
                  IN  IF ~operand.ok THEN operand
                      ELSE Return(CompoundExpression(
                               [i \in DOMAIN good |-> good[i].value], operand.value))

\* A faulty variant: the operand is looked up before the entries are decoded.
compoundExpressionFromJSON_operandFirst(js) ==
    IF js.j # "dict" THEN NotSubscriptable(js)
    ELSE IF "expressions" \notin DOMAIN js.d THEN MissingKey("expressions")
    ELSE IF "operand" \notin DOMAIN js.d THEN MissingKey("operand")
    ELSE LET entries == iterate(js.d.expressions)
         IN  IF ~entries.ok THEN entries
             ELSE LET rs  == [i \in DOMAIN entries.value |->
                                  expressionFromJSON(entries.value[i])]
                      bad == {i \in DOMAIN rs : ~rs[i].ok}
                      operand == OperandLookupByName(js.d.operand)
                  IN  IF ~operand.ok THEN operand
                      ELSE IF bad # {} THEN rs[MinOf(bad)]
                      ELSE Return(CompoundExpression(
                               [i \in DOMAIN rs |-> rs[i].value], operand.value))

\* tuple(expressionFromJSON(e) for e in expressions_json) raises at the
\* first entry that raises; the operand is looked up after every entry.
compoundExpressionFromJSON(js) ==
    IF js.j # "dict" THEN NotSubscriptable(js)
    ELSE IF "expressions" \notin DOMAIN js.d THEN MissingKey("expressions")
    ELSE IF "operand" \notin DOMAIN js.d THEN MissingKey("operand")
    ELSE LET entries == iterate(js.d.expressions)
         IN  IF ~entries.ok THEN entries
             ELSE LET rs  == [i \in DOMAIN entries.value |->
                                  expressionFromJSON(entries.value[i])]
                      bad == {i \in DOMAIN rs : ~rs[i].ok}
                      operand == OperandLookupByName(js.d.operand)
                  IN  IF bad # {} THEN rs[MinOf(bad)]
                      ELSE IF ~operand.ok THEN operand
                      ELSE Return(CompoundExpression(
                               [i \in DOMAIN rs |-> rs[i].value], operand.value))

expressionFromJSON(js) ==
    IF js.j # "dict" THEN Raise("TypeError", "TypeMismatch", W(js.j))
    ELSE IF "type" \notin DOMAIN js.d THEN MissingKey("type")
    ELSE LET json_type == js.d.type
         IN  IF json_type = JStr(W("CompoundExpression"))
             THEN compoundExpressionFromJSON(js)
             ELSE IF json_type = JStr(W("MatchExpression"))
             THEN MissingArgument("matchExpressionFromJSON")
             ELSE IF json_type = JStr(W("ExistsExpression"))
             THEN MissingArgument("existsExpressionFromJSON")
             ELSE IF json_type = JStr(W("BooleanExpression"))
             THEN MissingArgument("booleanExpressionFromJSON")
             ELSE Raise("NotImplementedError", "UnknownExpressionType",
                        NameOf(json_type))

----------------------------------------------------------------------------
(* JSON text: a sequence of tokens, the separators "," and ":" and the     *)
(* brackets being tokens of their own (compact form, no whitespace).       *)

Tok(t, s, n) == [t |-> t, s |-> s, n |-> n]

P(c) == Tok(c, <<>>, 0)

\* The order in which dumps writes the keys of a dict.
KeyOrder == <<"type", "field", "value", "match", "flags", "operand", "expressions">>

RECURSIVE dumps(_), dumpsItems(_, _), dumpsMembers(_, _, _)

dumpsItems(items, i) ==
    IF i > Len(items) THEN <<>>
    ELSE (IF i > 1 THEN <<P(",")>> ELSE <<>>)
             \o dumps(items[i]) \o dumpsItems(items, i + 1)

dumpsMembers(d, i, first) ==
    IF i > Len(KeyOrder) THEN <<>>
    ELSE IF KeyOrder[i] \notin DOMAIN d THEN dumpsMembers(d, i + 1, first)
    ELSE (IF first THEN <<>> ELSE <<P(",")>>)
             \o <<Tok("str", W(KeyOrder[i]), 0), P(":")>>
             \o dumps(d[KeyOrder[i]]) \o dumpsMembers(d, i + 1, FALSE)

dumps(js) ==
    CASE js.j = "str"  -> <<Tok("str", js.s, 0)>>
      [] js.j = "num"  -> <<Tok("num", <<>>, js.n)>>
      [] js.j = "bool" -> <<Tok("lit", W(IF js.b THEN "true" ELSE "false"), 0)>>
      [] js.j = "null" -> <<Tok("lit", W("null"), 0)>>
      [] js.j = "list" -> <<P("[")>> \o dumpsItems(js.items, 1) \o <<P("]")>>
      [] js.j = "dict" -> <<P("{")>> \o dumpsMembers(js.d, 1, TRUE) \o <<P("}")>>

to_json_text(obj) == dumps(obj)

\* A parse step: the value read and the position after it, or failure.
Parsed(v, next) == [ok |-> TRUE, value |-> v, next |-> next]

ParseError == [ok |-> FALSE, value |-> JNull, next |-> 0]

RECURSIVE parseValue(_, _), parseItems(_, _, _), parseMembers(_, _, _)

parseItems(text, pos, acc) ==
    LET v == parseValue(text, pos)
    IN  IF ~v.ok \/ v.next > Len(text) THEN ParseError
        ELSE IF text[v.next].t = "]"
        THEN Parsed(JList(Append(acc, v.value)), v.next + 1)
        ELSE IF text[v.next].t = ","
        THEN parseItems(text, v.next + 1, Append(acc, v.value))
        ELSE ParseError

parseMembers(text, pos, acc) ==
    IF pos + 1 > Len(text) THEN ParseError
    ELSE IF text[pos].t # "str" \/ Len(text[pos].s) # 1 \/ text[pos + 1].t # ":"
    THEN ParseError
    ELSE LET key == text[pos].s[1]
             v   == parseValue(text, pos + 2)
             d   == [k \in DOMAIN acc \cup {key} |->
                        IF k = key THEN v.value ELSE acc[k]]
         IN  IF ~v.ok \/ v.next > Len(text) THEN ParseError
             ELSE IF text[v.next].t = "}" THEN Parsed(JDict(d), v.next + 1)
             ELSE IF text[v.next].t = "," THEN parseMembers(text, v.next + 1, d)
             ELSE ParseError

parseValue(text, pos) ==
    IF pos > Len(text) THEN ParseError
    ELSE LET tok == text[pos]
         IN  CASE tok.t = "str" -> Parsed(JStr(tok.s), pos + 1)
               [] tok.t = "num" -> Parsed(JNum(tok.n), pos + 1)
               [] tok.t = "lit" ->
                    IF tok.s = W("null") THEN Parsed(JNull, pos + 1)
                    ELSE Parsed(JBool(tok.s = W("true")), pos + 1)
               [] tok.t = "[" ->
                    IF pos + 1 <= Len(text) /\ text[pos + 1].t = "]"
                    THEN Parsed(JList(<<>>), pos + 2)
                    ELSE parseItems(text, pos + 1, <<>>)
               [] tok.t = "{" ->
                    IF pos + 1 <= Len(text) /\ text[pos + 1].t = "}"
                    THEN Parsed(JDict(<<>>), pos + 2)
                    ELSE parseMembers(text, pos + 1, <<>>)
               [] OTHER -> ParseError

\* json.loads: the value the whole text spells, or ValueError.
from_json_text(text) ==
    LET v == parseValue(text, 1)
    IN  IF v.ok /\ v.next = Len(text) + 1 THEN Return(v.value)
        ELSE Raise("ValueError", "MalformedJSON", <<>>)

expressionAsJSONText(e) ==
    LET js == expressionAsJSON(e)
    IN  IF js.ok THEN Return(to_json_text(js.value)) ELSE js

expressionFromJSONText(text) ==
    LET js == from_json_text(text)
    IN  IF js.ok THEN expressionFromJSON(js.value) ELSE js

----------------------------------------------------------------------------
(* Inputs *)

Services == {[fieldName |-> FieldNames], [fieldName |-> {"uid"}]}

AllFields == [fieldName |-> FieldNames]

FieldValues == {W("jdoe")}

\* An object that is no expression.
Other == [class |-> "Other"]

MatchExpressions ==
    {MatchExpression([name |-> f], v, [name |-> m], fl) :
        f \in FieldNames, v \in FieldValues, m \in MatchTypeNames,
        fl \in SUBSET FlagNames}

LeafExpressions ==
    MatchExpressions
        \cup {ExistsExpression([name |-> f]) : f \in FieldNames}
        \cup {BooleanExpression([name |-> f]) : f \in FieldNames}

Operands == {[name |-> o] : o \in OperandNames}

\* ExprForest(leaves, n): the sequences of objects of n nodes in all;
\* ExprOfSize(leaves, n): the objects of exactly n nodes.
RECURSIVE ExprForest(_, _), ExprOfSize(_, _)

ExprForest(leaves, n) ==
    IF n = 0 THEN {<<>>}
    ELSE UNION {{<<t>> \o f : t \in ExprOfSize(leaves, k),
                              f \in ExprForest(leaves, n - k)} : k \in 1..n}

ExprOfSize(leaves, n) ==
    (IF n = 1 THEN leaves ELSE {})
        \cup {CompoundExpression(f, o) :
                 f \in ExprForest(leaves, n - 1), o \in Operands}

\* The leaves of the nested inputs: some of each variant, and the object
\* that is no expression.
NestedExpressions ==
    {MatchExpression([name |-> "uid"], W("jdoe"), [name |-> "equals"], {}),
     MatchExpression([name |-> "guid"], W("jdoe"), [name |-> "contains"],
                     {"A", "B"}),
     ExistsExpression([name |-> "uid"]),
     BooleanExpression([name |-> "guid"]),
     Other}

\* The objects handed to the encoder: every leaf, and the trees built of
\* the nested leaves.
ExpressionInputs ==
    LeafExpressions
        \cup UNION {ExprOfSize(NestedExpressions, n) : n \in 1..MaxExprNodes}

Absent == [j |-> "absent"]

Opt(key, v) == IF v = Absent THEN <<>> ELSE key :> v

Node(t, f, v, m, fl) ==
    JDict(Opt("type", t) @@ Opt("field", f) @@ Opt("value", v)
              @@ Opt("match", m) @@ Opt("flags", fl))

Compound(t, o, es) ==
    JDict(Opt("type", t) @@ Opt("operand", o) @@ Opt("expressions", es))

TypeNames ==
    {"CompoundExpression", "MatchExpression", "ExistsExpression",
     "BooleanExpression"}

TypeValues == {JStr(W(t)) : t \in TypeNames} \cup {JStr(W("Bogus")), Absent}

FieldJSONValues == {JStr(W("uid")), JStr(W("guid")), JStr(W("bogus")), Absent}

ValueJSONValues ==
    {JStr(W("jdoe")), JNum(5), JBool(TRUE), JNull, Absent}

MatchJSONValues ==
    {JStr(W("equals")), JStr(W("contains")), JStr(W("bogus")), Absent}

FlagsJSONValues ==
    {JStr(<<"{", "}">>), JStr(W("A")), JStr(<<"{", "A", ",", "B", "}">>),
     JStr(<<"{", "A", ",", "B">>), JStr(<<"{", "A", ",", "}">>),
     JStr(W("bogus")), Absent}

\* Every single node with the keys of a match, exists or boolean node.
NodeObjects ==
    {Node(t, f, v, m, fl) :
        t \in TypeValues, f \in FieldJSONValues, v \in ValueJSONValues,
        m \in MatchJSONValues, fl \in FlagsJSONValues}

\* The entries a compound node is given in the nested inputs: sound nodes
\* of each kind and one node for each defect.
EntryValues ==
    {JNum(5),
     JDict(<<>>),
     Node(JStr(W("Bogus")), JStr(W("uid")), Absent, Absent, Absent),
     Node(JStr(W("MatchExpression")), JStr(W("uid")), JStr(W("jdoe")),
          JStr(W("contains")), JStr(W("A"))),
     Node(JStr(W("MatchExpression")), JStr(W("uid")), Absent, Absent, Absent),
     Node(JStr(W("MatchExpression")), JStr(W("uid")), JStr(W("jdoe")),
          JStr(W("bogus")), Absent),
     Node(JStr(W("MatchExpression")), JStr(W("uid")), JStr(W("jdoe")),
          Absent, JStr(<<"{", "A", ",", "B">>)),
     Node(JStr(W("ExistsExpression")), JStr(W("guid")), Absent, Absent, Absent),
     Node(JStr(W("BooleanExpression")), JStr(W("bogus")), Absent, Absent, Absent)}

OperandJSONValues == {JStr(W("AND")), JStr(W("XOR")), Absent}

RECURSIVE JSONForest(_), JSONOfSize(_)

JSONForest(n) ==
    IF n = 0 THEN {<<>>}
    ELSE UNION {{<<t>> \o f : t \in JSONOfSize(k), f \in JSONForest(n - k)} :
                   k \in 1..n}

JSONOfSize(n) ==
    (IF n = 1
     THEN EntryValues
              \cup {Compound(JStr(W("CompoundExpression")), JStr(W("AND")), es) :
                       es \in {Absent, JNull}}
     ELSE {})
        \cup {Compound(JStr(W("CompoundExpression")), o, JList(f)) :
                 o \in OperandJSONValues, f \in JSONForest(n - 1)}

JSONInputs ==
    NodeObjects \cup UNION {JSONOfSize(n) : n \in 1..MaxJSONNodes}

\* Texts that are not the encoder's output: truncated and ill-formed ones.
TextInputs ==
    {<<>>, <<P("{")>>, <<P("{"), P("}"), P("}")>>, <<P("["), P("]")>>,
     <<P("{"), Tok("str", W("type"), 0), P(":"),
       Tok("str", W("Bogus"), 0), P("}")>>,
     <<P("{"), Tok("str", W("type"), 0), P("}")>>}

FlagSymbols == {"{", "}", ",", "A", "B", "x"}

RECURSIVE StringsOfLen(_)
StringsOfLen(n) ==
    IF n = 0 THEN {<<>>}
    ELSE {Append(s, c) : s \in StringsOfLen(n - 1), c \in FlagSymbols}

FlagStrings == UNION {StringsOfLen(n) : n \in 0..MaxFlagsLen}

----------------------------------------------------------------------------
(* The calls *)

NoExpression == [class |-> "None"]

InitCodec ==
    /\ encoded = NoResult /\ result = NoResult /\ op = <<>>
    /\ \/ /\ kind = "expression"
          /\ expression \in ExpressionInputs
          /\ service = AllFields /\ json = JNull /\ jsonText = <<>>
       \/ /\ kind = "text"
          /\ jsonText \in TextInputs
          /\ expression = NoExpression /\ service = AllFields /\ json = JNull

InitDecode ==
    /\ encoded = NoResult /\ result = NoResult /\ op = <<>>
    /\ kind = "json"
    /\ json \in JSONInputs
    /\ service \in Services
    /\ expression = NoExpression /\ jsonText = <<>>

InitFlags ==
    /\ encoded = NoResult /\ result = NoResult /\ op = <<>>
    /\ kind = "string"
    /\ json \in {JStr(s) : s \in FlagStrings}
              \cup {JStr(W(m)) : m \in MatchTypeNames} \cup {JNum(5)}
    /\ service = AllFields
    /\ expression = NoExpression /\ jsonText = <<>>

Init == InitCodec \/ InitDecode \/ InitFlags

ExpressionAsJSON ==
    /\ kind = "expression" /\ op = <<>>
    /\ encoded' = expressionAsJSON(expression)
    /\ json' = IF encoded'.ok THEN encoded'.value ELSE json
    /\ op' = <<"expressionAsJSON">>
    /\ UNCHANGED <<kind, expression, service, jsonText, result>>

ExpressionAsJSONText ==
    /\ kind = "expression" /\ op = <<>>
    /\ encoded' = expressionAsJSONText(expression)
    /\ jsonText' = IF encoded'.ok THEN encoded'.value ELSE jsonText
    /\ op' = <<"expressionAsJSONText">>
    /\ UNCHANGED <<kind, expression, service, json, result>>

\* Called on a JSON value at hand: a given one, or the encoder's.
ExpressionFromJSON ==
    /\ <<kind, op, encoded.ok>> \in
           {<<"json", <<>>, FALSE>>, <<"expression", <<"expressionAsJSON">>, TRUE>>}
    /\ result' = expressionFromJSON(json)
    /\ op' = Append(op, "expressionFromJSON")
    /\ UNCHANGED <<kind, expression, service, json, jsonText, encoded>>

ExpressionFromJSONText ==
    /\ <<kind, op, encoded.ok>> \in
           {<<"text", <<>>, FALSE>>,
            <<"expression", <<"expressionAsJSONText">>, TRUE>>}
    /\ result' = expressionFromJSONText(jsonText)
    /\ op' = Append(op, "expressionFromJSONText")
    /\ UNCHANGED <<kind, expression, service, json, jsonText, encoded>>

MatchExpressionFromJSON ==
    /\ kind = "json" /\ op = <<>>
    /\ result' = matchExpressionFromJSON(service, json)
    /\ op' = <<"matchExpressionFromJSON">>
    /\ UNCHANGED <<kind, expression, service, json, jsonText, encoded>>

ExistsExpressionFromJSON ==
    /\ kind = "json" /\ op = <<>>
    /\ result' = existsExpressionFromJSON(service, json)
    /\ op' = <<"existsExpressionFromJSON">>
    /\ UNCHANGED <<kind, expression, service, json, jsonText, encoded>>

BooleanExpressionFromJSON ==
    /\ kind = "json" /\ op = <<>>
    /\ result' = booleanExpressionFromJSON(service, json)
    /\ op' = <<"booleanExpressionFromJSON">>
    /\ UNCHANGED <<kind, expression, service, json, jsonText, encoded>>

CompoundExpressionFromJSON ==
    /\ kind = "json" /\ op = <<>>
    /\ result' = compoundExpressionFromJSON(json)
    /\ op' = <<"compoundExpressionFromJSON">>
    /\ UNCHANGED <<kind, expression, service, json, jsonText, encoded>>

MatchFlagsFromJSON ==
    /\ kind = "string" /\ op = <<>>
    /\ result' = matchFlagsFromJSON(json)
    /\ op' = <<"matchFlagsFromJSON">>
    /\ UNCHANGED <<kind, expression, service, json, jsonText, encoded>>

MatchTypeFromJSON ==
    /\ kind = "string" /\ op = <<>>
    /\ result' = matchTypeFromJSON(json)
    /\ op' = <<"matchTypeFromJSON">>
    /\ UNCHANGED <<kind, expression, service, json, jsonText, encoded>>

NextCodec ==
    \/ ExpressionAsJSON
    \/ ExpressionAsJSONText
    \/ ExpressionFromJSON
    \/ ExpressionFromJSONText

NextDecode ==
    \/ ExpressionFromJSON
    \/ MatchExpressionFromJSON
    \/ ExistsExpressionFromJSON
    \/ BooleanExpressionFromJSON
    \/ CompoundExpressionFromJSON

NextFlags ==
    \/ MatchFlagsFromJSON
    \/ MatchTypeFromJSON

Next == NextCodec \/ NextDecode \/ NextFlags

SpecCodec == InitCodec /\ [][NextCodec]_vars

SpecDecode == InitDecode /\ [][NextDecode]_vars

SpecFlags == InitFlags /\ [][NextFlags]_vars

Spec == Init /\ [][Next]_vars

----------------------------------------------------------------------------
(* Vocabulary of the properties *)

Failed(r, exc, k) == ~r.ok /\ r.exc = exc /\ r.kind = k

HasType(js, t) ==
    js.j = "dict" /\ "type" \in DOMAIN js.d /\ js.d.type = JStr(W(t))

Has(js, key) == js.j = "dict" /\ key \in DOMAIN js.d

\* The keys a node kind requires, in the order its decoder checks them.
RequiredKeys ==
    [CompoundExpression |-> <<"expressions", "operand">>,
     MatchExpression    |-> <<"field", "value">>,
     ExistsExpression   |-> <<"field">>,
     BooleanExpression  |-> <<"field">>]

DecoderName ==
    [CompoundExpression |-> "compoundExpressionFromJSON",
     MatchExpression    |-> "matchExpressionFromJSON",
     ExistsExpression   |-> "existsExpressionFromJSON",
     BooleanExpression  |-> "booleanExpressionFromJSON"]

MissingKeys(js, t) ==
    {i \in DOMAIN RequiredKeys[t] : RequiredKeys[t][i] \notin DOMAIN js.d}

\* The comma-separated components of a string: the runs between
\* neighbouring boundaries (the ends and the commas).
Components(s) ==
    LET bounds == {0, Len(s) + 1} \cup {i \in 1..Len(s) : s[i] = ","}
    IN  {SubSeq(s, a + 1, b - 1) :
            <<a, b>> \in {p \in bounds \X bounds :
                            /\ p[1] < p[2]
                            /\ ~\E c \in bounds : p[1] < c /\ c < p[2]}}

IsFlagName(s) == Len(s) = 1 /\ s[1] \in FlagNames

Braced(s) == Len(s) >= 2 /\ s[1] = "{" /\ s[Len(s)] = "}"

\* The flag strings the grammar accepts.
FlagsKnown(s) ==
    IF Braced(s)
    THEN Len(s) = 2 \/ \A c \in Components(SubSeq(s, 2, Len(s) - 1)) : IsFlagName(c)
    ELSE IsFlagName(s)

FieldKnown(svc, js) == js \in {JStr(W(f)) : f \in svc.fieldName}

MatchKnown(js) == js \in {JStr(W(m)) : m \in MatchTypeNames}

OperandKnown(js) == js \in {JStr(W(o)) : o \in OperandNames}

\* The decoder with the resolver handed to every nested call, as section
\* 4.3 of the specification describes it.
RECURSIVE DecodeWithResolver(_, _)
DecodeWithResolver(svc, js) ==
    IF HasType(js, "MatchExpression") THEN matchExpressionFromJSON(svc, js)
    ELSE IF HasType(js, "ExistsExpression") THEN existsExpressionFromJSON(svc, js)
    ELSE IF HasType(js, "BooleanExpression") THEN booleanExpressionFromJSON(svc, js)
    ELSE IF /\ HasType(js, "CompoundExpression")
            /\ MissingKeys(js, "CompoundExpression") = {}
            /\ js.d.expressions.j = "list"
    THEN LET rs  == [i \in DOMAIN js.d.expressions.items |->
                        DecodeWithResolver(svc, js.d.expressions.items[i])]
             bad == {i \in DOMAIN rs : ~rs[i].ok}
         IN  IF bad # {} THEN rs[MinOf(bad)]
             ELSE IF ~OperandKnown(js.d.operand)
             THEN Raise("ValueError", "UnknownOperand", NameOf(js.d.operand))
             ELSE Return(CompoundExpression([i \in DOMAIN rs |-> rs[i].value],
                                            [name |-> js.d.operand.s[1]]))
    ELSE expressionFromJSON(js)

\* A node with one of the defects of section 7, itself or below it.
RECURSIVE HasDefect(_, _)
HasDefect(svc, js) ==
    IF js.j # "dict" THEN TRUE
    ELSE IF "type" \notin DOMAIN js.d THEN TRUE
    ELSE IF \A t \in TypeNames : ~HasType(js, t) THEN TRUE
    ELSE LET t == CHOOSE t \in TypeNames : HasType(js, t)
         IN  IF MissingKeys(js, t) # {} THEN TRUE
             ELSE IF t = "CompoundExpression"
             THEN \/ ~OperandKnown(js.d.operand)
                  \/ /\ js.d.expressions.j = "list"
                     /\ \E i \in DOMAIN js.d.expressions.items :
                            HasDefect(svc, js.d.expressions.items[i])
             ELSE \/ ~FieldKnown(svc, js.d.field)
                  \/ /\ t = "MatchExpression"
                     /\ \/ Has(js, "match") /\ ~MatchKnown(js.d.match)
                        \/ Has(js, "flags") /\ ~FlagsKnown(js.d.flags.s)

\* Trees of the four variants; a well-formed one has no empty compound.
RECURSIVE IsTree(_), WellFormed(_)
IsTree(e) ==
    IF e.class = "CompoundExpression"
    THEN \A i \in DOMAIN e.expressions : IsTree(e.expressions[i])
    ELSE e.class \in TypeNames

WellFormed(e) ==
    IF e.class = "CompoundExpression"
    THEN /\ Len(e.expressions) >= 1
         /\ \A i \in DOMAIN e.expressions : WellFormed(e.expressions[i])
    ELSE e.class \in TypeNames

----------------------------------------------------------------------------
(* Properties *)

\* C1: for a well-formed expression tree T, decoding what the encoder made
\* of T, by expressionFromJSON after expressionAsJSON or by
\* expressionFromJSONText after expressionAsJSONText, succeeds and returns
\* a tree equal to T.
C1_RoundTrip ==
    (kind = "expression" /\ Len(op) = 2 /\ WellFormed(expression))
        => result = Return(expression)

\* C3: expressionFromJSON fails with TypeMismatch on a value that is no
\* object, else with MissingField("type") when there is no type key, else
\* with UnknownExpressionType exactly when the type is none of the four
\* discriminators; for each of the four, the outcome is that of the decoder
\* of that variant.
C3_Dispatch ==
    (kind = "json" /\ op = <<"expressionFromJSON">>) =>
        IF json.j # "dict" THEN Failed(result, "TypeError", "TypeMismatch")
        ELSE IF "type" \notin DOMAIN json.d THEN result = MissingKey("type")
        ELSE /\ Failed(result, "NotImplementedError", "UnknownExpressionType")
                    <=> \A t \in TypeNames : ~HasType(json, t)
             /\ HasType(json, "CompoundExpression")
                    => result = compoundExpressionFromJSON(json)
             /\ HasType(json, "MatchExpression")
                    => result = matchExpressionFromJSON(service, json)
             /\ HasType(json, "ExistsExpression")
                    => result = existsExpressionFromJSON(service, json)
             /\ HasType(json, "BooleanExpression")
                    => result = booleanExpressionFromJSON(service, json)

\* C4: decoding a compound object whose expressions array holds n valid
\* nodes and whose operand is known succeeds, with that operand and the n
\* children in order, the i-th being the decoding of the i-th entry with
\* the resolver of the outermost call, at every depth.
C4_CompoundChildren ==
    (/\ kind = "json" /\ op = <<"expressionFromJSON">>
     /\ HasType(json, "CompoundExpression")
     /\ ~HasDefect(service, json)
     /\ json.d.expressions.j = "list")
        => /\ result.ok
           /\ result.value.operand.name = json.d.operand.s[1]
           /\ Len(result.value.expressions) = Len(json.d.expressions.items)
           /\ \A i \in DOMAIN json.d.expressions.items :
                  Return(result.value.expressions[i])
                      = DecodeWithResolver(service, json.d.expressions.items[i])

\* C7: on a tree of the four variants expressionAsJSON returns an object
\* whose type is the node's class name and whose other keys are those of
\* the variant, a compound's expressions holding the encodings of its
\* children, as many and in the same order; on an object of no variant it
\* fails with UnsupportedType and hands back nothing.
RECURSIVE EncodedShape(_, _)
EncodedShape(e, js) ==
    /\ js.j = "dict"
    /\ "type" \in DOMAIN js.d
    /\ js.d.type = JStr(W(e.class))
    /\ CASE e.class = "MatchExpression" ->
              DOMAIN js.d = {"type", "field", "value", "match", "flags"}
         [] e.class \in {"ExistsExpression", "BooleanExpression"} ->
              DOMAIN js.d = {"type", "field"}
         [] e.class = "CompoundExpression" ->
              /\ DOMAIN js.d = {"type", "operand", "expressions"}
              /\ js.d.operand = JStr(W(e.operand.name))
              /\ js.d.expressions.j = "list"
              /\ Len(js.d.expressions.items) = Len(e.expressions)
              /\ \A i \in DOMAIN e.expressions :
                     /\ Return(js.d.expressions.items[i])
                            = expressionAsJSON(e.expressions[i])
                     /\ EncodedShape(e.expressions[i], js.d.expressions.items[i])

C7_EncoderShape ==
    (kind = "expression" /\ op = <<"expressionAsJSON">>) =>
        IF IsTree(expression)
        THEN encoded.ok /\ json = encoded.value
                 /\ EncodedShape(expression, encoded.value)
        ELSE expression.class \notin TypeNames
                 => Failed(encoded, "TypeError", "UnsupportedType") /\ json = JNull

C7_Witness ==
    /\ kind = "expression" /\ op = <<"expressionAsJSON">>
    /\ expression.class = "CompoundExpression"
    /\ Len(expression.expressions) = 2
    /\ expression.expressions[1].class = "MatchExpression"
    /\ expression.expressions[2].class = "ExistsExpression"
    /\ encoded.ok
    /\ json.d.expressions.items[2] = existsExpressionAsJSON(expression.expressions[2])

\* C5: matchFlagsFromJSON on a string: "{}" gives the empty flag value; a
\* string with "{" first and "}" last gives the union of the flags its
\* comma-separated interior names, or UnknownFlag when a component, an
\* empty one included, names none; any other string is looked up whole and
\* fails with UnknownFlag, carrying the whole string, when it is no name.
C5_FlagsGrammar ==
    (kind = "string" /\ op = <<"matchFlagsFromJSON">> /\ json.j = "str") =>
        LET s == json.s
            interior == Components(SubSeq(s, 2, Len(s) - 1))
        IN  IF s = <<"{", "}">> THEN result = Return({})
            ELSE IF Braced(s)
            THEN IF \A c \in interior : IsFlagName(c)
                 THEN result = Return({c[1] : c \in interior})
                 ELSE /\ Failed(result, "ValueError", "UnknownFlag")
                      /\ result.arg \in interior /\ ~IsFlagName(result.arg)
            ELSE IF IsFlagName(s) THEN result = Return({s[1]})
            ELSE result = Raise("ValueError", "UnknownFlag", s)

C5_Witness ==
    /\ kind = "string" /\ op = <<"matchFlagsFromJSON">>
    /\ json = JStr(<<"{", "A", ",", "B", "}">>)
    /\ result = Return({"A", "B"})

\* C2: a variant's decoder, given an object of its type that lacks a
\* required key, fails with MissingField naming the first missing key in
\* the variant's check order (match: field, value; exists and boolean:
\* field; compound: expressions, operand), whatever else the object holds.
C2_MissingKey ==
    \A t \in TypeNames :
        (/\ kind = "json" /\ op = <<DecoderName[t]>>
         /\ HasType(json, t)
         /\ MissingKeys(json, t) # {})
            => result = MissingKey(RequiredKeys[t][MinOf(MissingKeys(json, t))])

C2_Witness ==
    /\ kind = "json" /\ op = <<"matchExpressionFromJSON">>
    /\ HasType(json, "MatchExpression")
    /\ ~Has(json, "field") /\ ~Has(json, "value") /\ Has(json, "flags")
    /\ result = MissingKey("field")

\* The object with the absent match and flags keys set to their defaults.
WithDefaults(js) ==
    JDict([k \in DOMAIN js.d \cup {"match", "flags"} |->
              IF k \in DOMAIN js.d THEN js.d[k]
              ELSE IF k = "match" THEN JStr(W("equals"))
              ELSE JStr(<<"{", "}">>)])

\* C6: the match decoder, given an object with a known field and a value
\* that omits match or flags, yields what it yields for the same object
\* with match "equals" and flags "{}" put in: match type equals, no flag,
\* each default applying whether or not the other key is present.
C6_Defaults ==
    (/\ kind = "json" /\ op = <<"matchExpressionFromJSON">>
     /\ Has(json, "field") /\ Has(json, "value")
     /\ FieldKnown(service, json.d.field)
     /\ ~Has(json, "match") \/ ~Has(json, "flags"))
        => /\ result = matchExpressionFromJSON(service, WithDefaults(json))
           /\ (~Has(json, "match")
                   /\ (Has(json, "flags") => FlagsKnown(json.d.flags.s)))
                  => result.ok /\ result.value.matchType.name = "equals"
           /\ (~Has(json, "flags")
                   /\ (Has(json, "match") => MatchKnown(json.d.match)))
                  => result.ok /\ result.value.flags = {}

C6_Witness ==
    /\ kind = "json" /\ op = <<"matchExpressionFromJSON">>
    /\ Has(json, "field") /\ Has(json, "value")
    /\ ~Has(json, "match") /\ ~Has(json, "flags")
    /\ result.ok
    /\ result.value.matchType.name = "equals" /\ result.value.flags = {}

\* The string form of the JSON values of the inputs.
StringForm(js) ==
    CASE js = JStr(W("jdoe")) -> W("jdoe")
      [] js = JNum(5)         -> W("5")
      [] js = JBool(TRUE)     -> W("True")
      [] js = JNull           -> W("None")

\* C8: the match decoder accepts a value of any JSON type: it succeeds or
\* fails as it does with a string in its place, succeeds when the field is
\* known and match and flags are sound, and the expression it yields holds
\* the string form of the value.
C8_ValueStringified ==
    (/\ kind = "json" /\ op = <<"matchExpressionFromJSON">>
     /\ Has(json, "field") /\ Has(json, "value"))
        => /\ result.ok = matchExpressionFromJSON(
                              service, [json EXCEPT !.d.value = JStr(W("jdoe"))]).ok
           /\ (/\ FieldKnown(service, json.d.field)
               /\ Has(json, "match") => MatchKnown(json.d.match)
               /\ Has(json, "flags") => FlagsKnown(json.d.flags.s))
                  => result.ok
           /\ result.ok => result.value.fieldValue = StringForm(json.d.value)

C8_Witness ==
    /\ kind = "json" /\ op = <<"matchExpressionFromJSON">>
    /\ Has(json, "value") /\ json.d.value = JBool(TRUE)
    /\ result.ok /\ result.value.fieldValue = W("True")

\* C9: expressionFromJSON, given a compound object with a defective node at
\* any depth and position, fails: it returns no expression, neither one
\* without the defective entry nor the entries decoded before it.
C9_NoPartialResult ==
    (/\ kind = "json" /\ op = <<"expressionFromJSON">>
     /\ HasType(json, "CompoundExpression")
     /\ HasDefect(service, json))
        => ~result.ok

C9_Witness ==
    /\ kind = "json" /\ op = <<"expressionFromJSON">>
    /\ HasType(json, "CompoundExpression")
    /\ Has(json, "operand") /\ OperandKnown(json.d.operand)
    /\ Has(json, "expressions") /\ json.d.expressions.j = "list"
    /\ Len(json.d.expressions.items) = 2
    /\ expressionFromJSON(json.d.expressions.items[1]).ok
    /\ json.d.expressions.items[2] = JNum(5)
    /\ Failed(result, "TypeError", "TypeMismatch")

\* C10: the match decoder reports the first defect in the order missing
\* field, missing value, unknown field name, unknown match type, unknown
\* flag; the compound decoder reports a missing key before it decodes any
\* entry, and the first failing entry's error before an unknown operand.
C10_ErrorPrecedence ==
    /\ (kind = "json" /\ op = <<"matchExpressionFromJSON">> /\ json.j = "dict") =>
           IF ~Has(json, "field") THEN result = MissingKey("field")
           ELSE IF ~Has(json, "value") THEN result = MissingKey("value")
           ELSE IF ~FieldKnown(service, json.d.field)
           THEN Failed(result, "ValueError", "UnknownFieldName")
           ELSE IF Has(json, "match") /\ ~MatchKnown(json.d.match)
           THEN Failed(result, "ValueError", "UnknownMatchType")
           ELSE IF Has(json, "flags") /\ ~FlagsKnown(json.d.flags.s)
           THEN Failed(result, "ValueError", "UnknownFlag")
           ELSE result.ok
    /\ (kind = "json" /\ op = <<"compoundExpressionFromJSON">> /\ json.j = "dict") =>
           IF ~Has(json, "expressions") THEN result = MissingKey("expressions")
           ELSE IF ~Has(json, "operand") THEN result = MissingKey("operand")
           ELSE json.d.expressions.j = "list" =>
                LET items   == json.d.expressions.items
                    failing == {i \in DOMAIN items : ~expressionFromJSON(items[i]).ok}
                IN  IF failing # {}
                    THEN result = expressionFromJSON(items[MinOf(failing)])
                    ELSE IF ~OperandKnown(json.d.operand)
                    THEN Failed(result, "ValueError", "UnknownOperand")
                    ELSE result.ok

C10_Witness ==
    /\ kind = "json" /\ op = <<"matchExpressionFromJSON">>
    /\ Has(json, "field") /\ Has(json, "value")
    /\ ~FieldKnown(service, json.d.field)
    /\ Has(json, "match") /\ ~MatchKnown(json.d.match)
    /\ Has(json, "flags") /\ ~FlagsKnown(json.d.flags.s)
    /\ Failed(result, "ValueError", "UnknownFieldName")

====
